---------------------------- MODULE Spec2Model ----------------------------
(***************************************************************************)
(* A model of the rotating JWK store of oauth2-mock-server                 *)
(* (src/src/lib/jwk-store.ts): the JWKStore facade, normalizeKey and the   *)
(* KeyRotator that keeps the rotation sequence; and of the command line    *)
(* (src/src/oauth2-mock-server.ts) that fills the store of the server.     *)
(*                                                                         *)
(* A JWK object is a function from field names to values; a field the      *)
(* object does not carry (or carries with the value undefined, which       *)
(* JSON.stringify drops) maps to Undefined.                                *)
(***************************************************************************)
EXTENDS Integers, Sequences, FiniteSets, TLC

VARIABLES
    keys,       \* KeyRotator.#keys: the rotation sequence
    last,       \* the last call on the store: its arguments, outcome and the
                \* rotation sequence it started from
    run,        \* the keys returned by the latest consecutive get() calls
    runPre,     \* the rotation sequence before each call of run
    inserted,   \* kids in the order of their latest add/generate
    touched,    \* kids in the order of their latest add/generate or return
                \* by get
    due,        \* per stored kid, the position + 1 its key was last placed at
                \* (of) and what is left of it after the get() calls since
    handed,     \* per kid, the objects of the caller that stored the key of
                \* that kid last: the one given to add and the one got back
    cli,        \* the run of cli(args) of oauth2-mock-server.ts: where it is,
                \* the arguments left, the options, the files written
    flights,    \* the calls of generate in the order they were made, each
                \* with its arguments and the await it is suspended at
    landed      \* the calls of generate that have stored their key, in the
                \* order they did, each with the kid it stored under

vars ==
    <<keys, last, run, runPre, inserted, touched, due, handed, cli, flights,
      landed>>

(***************************************************************************)
(* Bounds of the model.                                                    *)
(***************************************************************************)
\* The store is not grown beyond MaxKeys keys: add and generate of a new kid
\* are not taken on a store of MaxKeys keys. It binds under SpecOrder, whose
\* callers use more kids than that; under Spec the kids in use bound the
\* store.
MaxKeys == 3

\* The command line holds at most MaxOptions options (an option with its
\* value counting as one).
MaxOptions == 3

\* At most MaxFlights calls of generate are made while others are suspended.
MaxFlights == 2

(***************************************************************************)
(* JWK objects.                                                            *)
(***************************************************************************)
Undefined == "<undefined>"
NoError == "<none>"

Fields ==
    {"kid", "kty", "alg", "use", "n", "e", "crv", "x", "y",
     "d", "p", "q", "dp", "dq", "qi"}

\* The private members of a JWK (test/jwk-store.test.ts:204).
PrivateFields == {"d", "p", "q", "dp", "dq", "qi"}

\* The public members of each key type.
PublicFields(kty) ==
    CASE kty = "RSA" -> {"n", "e"}
      [] kty = "EC"  -> {"crv", "x", "y"}
      [] kty = "OKP" -> {"crv", "x"}
      [] OTHER       -> {}

EmptyObject == [f \in Fields |-> Undefined]

\* The fields an object carries.
Has(obj) == {f \in Fields : obj[f] # Undefined}

\* Which object it is: beside its members an object carries, under Ref, the
\* expression that allocated it. Two objects of one expression with the same
\* members are not told apart.
Ref == "<ref>"
NewObject(site, members) ==
    [s \in Fields \cup {Ref} |-> IF s = Ref THEN site ELSE members[s]]

\* fromKeyLike(pair.privateKey): the private JWK of a fresh key pair, with
\* neither kid nor alg nor use.
FromKeyLike(alg, crv) ==
    CASE alg = "RS256" ->
            [EmptyObject EXCEPT !["kty"] = "RSA", !["n"] = "n1", !["e"] = "AQAB",
                !["d"] = "d1", !["p"] = "p1", !["q"] = "q1",
                !["dp"] = "dp1", !["dq"] = "dq1", !["qi"] = "qi1"]
      [] alg = "ES256" ->
            [EmptyObject EXCEPT !["kty"] = "EC", !["crv"] = "P-256",
                !["x"] = "x1", !["y"] = "y1", !["d"] = "d1"]
      [] OTHER ->
            [EmptyObject EXCEPT !["kty"] = "OKP",
                !["crv"] = IF crv = Undefined THEN "Ed25519" ELSE crv,
                !["x"] = "x1", !["d"] = "d1"]

\* generateKeyPair(alg, {crv}) throws for an alg or crv it does not support.
GenerateKeyPairError(alg, crv) ==
    IF alg \notin {"RS256", "ES256", "EdDSA"}
    THEN "unsupported alg"
    ELSE IF alg = "EdDSA" /\ crv \notin {Undefined, "Ed25519", "Ed448"}
         THEN "unsupported crv"
         ELSE NoError

\* generateRandomKid(): 40 random bytes in hex; any value may come out.
RandomKids == {"5f3a"}

(***************************************************************************)
(* normalizeKey(jwk, alg, opts): the object as it is left, and the error   *)
(* thrown, if any. rnd is the value generateRandomKid() would return.      *)
(***************************************************************************)
NoOpts == [defined |-> FALSE, kid |-> Undefined, crv |-> Undefined]

NormalizeKid(jwk, opts, rnd) ==
    IF jwk["kid"] = Undefined
    THEN IF opts.defined /\ opts.kid # Undefined
         THEN [jwk EXCEPT !["kid"] = opts.kid]
         ELSE [jwk EXCEPT !["kid"] = rnd]
    ELSE jwk

\* As AlgAbsent, by falsiness: an empty alg counts as none.
AlgAbsentOrEmpty(jwk) == jwk["alg"] \in {Undefined, ""}

\* jwk.alg === undefined
AlgAbsent(jwk) == jwk["alg"] = Undefined

normalizeKey(jwk, alg, opts, rnd) ==
    LET withKid == NormalizeKid(jwk, opts, rnd)
    IN  IF AlgAbsent(withKid)
        THEN IF alg = Undefined
             THEN [jwk |-> withKid, err |-> "Unspecified alg"]
             ELSE [jwk |-> [withKid EXCEPT !["alg"] = alg], err |-> NoError]
        ELSE [jwk |-> withKid, err |-> NoError]

(***************************************************************************)
(* KeyRotator.  Positions are 0-based as in the code; -1 is "none".        *)
(***************************************************************************)
\* Array.prototype.findIndex
FindIndex(ks, kid) ==
    IF \E i \in 1..Len(ks) : ks[i]["kid"] = kid
    THEN (CHOOSE i \in 1..Len(ks) :
              /\ ks[i]["kid"] = kid
              /\ \A j \in 1..(i - 1) : ks[j]["kid"] # kid) - 1
    ELSE -1

\* As findNext, a call without kid taking the last key.
findNextFromTail(ks, kid) ==
    IF Len(ks) = 0 THEN -1
    ELSE IF kid = Undefined THEN Len(ks) - 1
    ELSE FindIndex(ks, kid)

findNext(ks, kid) ==
    IF Len(ks) = 0 THEN -1
    ELSE IF kid = Undefined THEN 0
    ELSE FindIndex(ks, kid)

\* keys.splice(pos, 1): the array without the element at pos.
Splice(ks, pos) ==
    [i \in 1..(Len(ks) - 1) |-> IF i <= pos THEN ks[i] ELSE ks[i + 1]]

\* As RotatorAdd, without the removal of the key of the same kid.
RotatorAddKeepingOld(ks, key) == Append(ks, key)

\* As RotatorAdd, the new key taking the place of the one it replaces.
RotatorAddInPlace(ks, key) ==
    LET pos == findNext(ks, key["kid"])
    IN  IF pos > -1 THEN [ks EXCEPT ![pos + 1] = key] ELSE Append(ks, key)

\* As RotatorAdd, without the check for "none": splice(-1, 1) takes the
\* last key out.
RotatorAddUnchecked(ks, key) ==
    LET pos == findNext(ks, key["kid"])
    IN  Append(IF Len(ks) = 0 THEN ks
               ELSE Splice(ks, IF pos = -1 THEN Len(ks) - 1 ELSE pos), key)

\* As RotatorAdd, with unshift for push.
RotatorAddAtFront(ks, key) ==
    LET pos == findNext(ks, key["kid"])
    IN  <<key>> \o (IF pos > -1 THEN Splice(ks, pos) ELSE ks)

RotatorAdd(ks, key) ==
    LET pos == findNext(ks, key["kid"])
    IN  Append(IF pos > -1 THEN Splice(ks, pos) ELSE ks, key)

\* As moveToTheEnd, the key returned but left where it is.
moveToTheEndNotMoving(ks, i) == [keys |-> ks, ret |-> <<ks[i + 1]>>]

\* As moveToTheEnd, the key changing places with the last one.
moveToTheEndSwapping(ks, i) ==
    [keys |-> [ks EXCEPT ![i + 1] = ks[Len(ks)], ![Len(ks)] = ks[i + 1]],
     ret |-> <<ks[i + 1]>>]

\* As moveToTheEnd, a copy of the key returned.
moveToTheEndCopying(ks, i) ==
    [keys |-> Append(Splice(ks, i), ks[i + 1]),
     ret |-> <<NewObject("{...key}", ks[i + 1])>>]

moveToTheEnd(ks, i) ==
    [keys |-> Append(Splice(ks, i), ks[i + 1]), ret |-> <<ks[i + 1]>>]

\* As RotatorNext, without the check for "none": splice(-1, 1) takes the
\* last key.
RotatorNextUnchecked(ks, kid) ==
    LET i == findNext(ks, kid)
    IN  IF Len(ks) = 0 THEN [keys |-> ks, ret |-> <<>>]
        ELSE moveToTheEnd(ks, IF i = -1 THEN Len(ks) - 1 ELSE i)

RotatorNext(ks, kid) ==
    LET i == findNext(ks, kid)
    IN  IF i = -1 THEN [keys |-> ks, ret |-> <<>>] ELSE moveToTheEnd(ks, i)

\* As PublicEntry, with the private exponent copied too.
PublicEntryWithD(key) ==
    [f \in Fields |->
        IF f \in {"kid", "kty", "e", "use", "n", "d"} THEN key[f] ELSE Undefined]

\* The members of a public entry of toJSON.
PublicEntry(key) ==
    [f \in Fields |->
        IF f \in {"kid", "kty", "e", "use", "n"} THEN key[f] ELSE Undefined]

\* As ToJSONEntry, the argument not looked at.
ToJSONEntryAlwaysPublic(key, includePrivateFields) ==
    NewObject("{kid, kty, e, use, n}", PublicEntry(key))

\* One entry of toJSON: a copy of the whole key, or a new object of the
\* members the code picks.
ToJSONEntry(key, includePrivateFields) ==
    IF includePrivateFields
    THEN NewObject("{...key}", key)
    ELSE NewObject("{kid, kty, e, use, n}", PublicEntry(key))

RotatorToJSON(ks, includePrivateFields) ==
    [i \in 1..Len(ks) |-> ToJSONEntry(ks[i], includePrivateFields)]

\* As RotatorAfterToJSON, the loop taking the keys with pop() and pushing
\* them back as it goes.
RotatorAfterToJSONPopping(ks) == [i \in 1..Len(ks) |-> ks[Len(ks) + 1 - i]]

\* #keys after toJSON: the loop reads it and writes nothing to it.
RotatorAfterToJSON(ks) == ks

(***************************************************************************)
(* JWKStore.                                                               *)
(***************************************************************************)
\* generate(alg, opts): the rotation sequence after the call, the key
\* returned and the error the promise is rejected with.
JWKStoreGenerate(ks, alg, opts, rnd) ==
    LET crv == IF opts.defined THEN opts.crv ELSE Undefined
        gerr == GenerateKeyPairError(alg, crv)
        jwk == NewObject("fromKeyLike", FromKeyLike(alg, crv))
        norm == normalizeKey(jwk, alg, opts, rnd)
    IN  IF gerr # NoError
        THEN [keys |-> ks, ret |-> <<>>, err |-> gerr]
        ELSE IF norm.err # NoError
        THEN [keys |-> ks, ret |-> <<>>, err |-> norm.err]
        ELSE [keys |-> RotatorAdd(ks, norm.jwk), ret |-> <<norm.jwk>>,
              err |-> NoError]

\* As JWKStoreAdd, the copy put into the rotator before it is normalized.
JWKStoreAddInsertingFirst(ks, jwk, rnd) ==
    LET jwkUse == NewObject("{...jwk}", jwk)
        norm == normalizeKey(jwkUse, Undefined, NoOpts, rnd)
    IN  IF norm.err # NoError
        THEN [keys |-> RotatorAdd(ks, norm.jwk), ret |-> <<>>, err |-> norm.err,
              arg |-> jwk]
        ELSE [keys |-> RotatorAdd(ks, norm.jwk), ret |-> <<norm.jwk>>,
              err |-> NoError, arg |-> jwk]

\* As JWKStoreAdd, the object given normalized and stored itself.
JWKStoreAddWithoutCopy(ks, jwk, rnd) ==
    LET norm == normalizeKey(jwk, Undefined, NoOpts, rnd)
    IN  IF norm.err # NoError
        THEN [keys |-> ks, ret |-> <<>>, err |-> norm.err, arg |-> norm.jwk]
        ELSE [keys |-> RotatorAdd(ks, norm.jwk), ret |-> <<norm.jwk>>,
              err |-> NoError, arg |-> norm.jwk]

\* add(jwk): as above, and the caller's object as the call leaves it.
JWKStoreAdd(ks, jwk, rnd) ==
    LET jwkUse == NewObject("{...jwk}", jwk)
        norm == normalizeKey(jwkUse, Undefined, NoOpts, rnd)
    IN  IF norm.err # NoError
        THEN [keys |-> ks, ret |-> <<>>, err |-> norm.err, arg |-> jwk]
        ELSE [keys |-> RotatorAdd(ks, norm.jwk), ret |-> <<norm.jwk>>,
              err |-> NoError, arg |-> jwk]

JWKStoreGet(ks, kid) == RotatorNext(ks, kid)

\* toJSON(includePrivateFields = false); arg is <<>> for a call without
\* argument and <<b>> for toJSON(b).
JWKStoreToJSON(ks, arg) ==
    RotatorToJSON(ks, IF arg = <<>> THEN FALSE ELSE arg[1])


(***************************************************************************)
(* The calls the model makes.                                              *)
(***************************************************************************)
\* The kids callers use: those of the store's contents (Spec) and those of
\* the rotation (SpecOrder).
CallerKids == {"key-one", ""}
OrderKids == {"key-one", "key-two", "key-three"}

\* test/keys/test-rs256-key.json: a private key as a caller supplies it;
\* BareKey carries an (empty) alg and no key material.
RSAKey ==
    NewObject("caller",
        [EmptyObject EXCEPT !["kty"] = "RSA", !["alg"] = "RS256",
            !["use"] = "sig", !["n"] = "n0", !["e"] = "AQAB", !["d"] = "d0",
            !["p"] = "p0", !["q"] = "q0", !["dp"] = "dp0", !["dq"] = "dq0",
            !["qi"] = "qi0"])
BareKey == NewObject("caller", [EmptyObject EXCEPT !["alg"] = ""])

SuppliedKeys(templates, kids) ==
    UNION {{[t EXCEPT !["kid"] = k], [t EXCEPT !["kid"] = k, !["alg"] = Undefined]} :
              t \in templates, k \in kids}

GenerateOpts(kids, crvs) ==
    {NoOpts} \cup {[defined |-> TRUE, kid |-> k, crv |-> c] : k \in kids, c \in crvs}

NoCall ==
    [op |-> "none", kid |-> Undefined, jwk |-> <<>>, argAfter |-> <<>>,
     alg |-> Undefined, opts |-> NoOpts, flag |-> <<>>,
     ret |-> <<>>, json |-> <<>>, err |-> NoError, before |-> <<>>]

defaultOptions ==
    [host |-> Undefined, port |-> 8080, keys |-> <<>>, saveJWK |-> FALSE]

\* A store that no command line has made: a JWKStore of a test or of a
\* program that uses the library.
NoCli ==
    [pc |-> "none", args |-> <<>>, arg |-> Undefined, opts |-> defaultOptions,
     jwks |-> <<>>, generated |-> 0, files |-> <<>>,
     exitCode |-> <<>>, error |-> NoError]

Init ==
    /\ cli = NoCli
    /\ keys = <<>>
    /\ last = NoCall
    /\ run = <<>>
    /\ runPre = <<>>
    /\ inserted = <<>>
    /\ touched = <<>>
    /\ due = <<>>
    /\ handed = <<>>
    /\ flights = <<>>
    /\ landed = <<>>

\* The last n elements of s.
LastN(s, n) == IF Len(s) <= n THEN s ELSE SubSeq(s, Len(s) - n + 1, Len(s))

\* What the caller of a successful add or generate holds for the kid of the
\* key it got back; generate is given no object.
Hand(given, got) ==
    IF got = <<>> THEN handed
    ELSE (got[1]["kid"] :> [given |-> given, got |-> got[1]]) @@ handed

\* await store.add(jwk)
Add(jwk, rnd) ==
    LET r == JWKStoreAdd(keys, jwk, rnd)
    IN  /\ Len(r.keys) <= MaxKeys
        /\ keys' = r.keys
        /\ last' = [NoCall EXCEPT !.op = "add", !.jwk = <<jwk>>,
                       !.argAfter = <<r.arg>>, !.ret = r.ret, !.err = r.err,
                       !.before = keys]
        /\ run' = <<>>
        /\ runPre' = <<>>
        /\ handed' = Hand(<<jwk>>, r.ret)
        /\ UNCHANGED <<cli, flights, landed>>

\* await store.generate(alg, opts)
Generate(alg, opts, rnd) ==
    LET r == JWKStoreGenerate(keys, alg, opts, rnd)
    IN  /\ Len(r.keys) <= MaxKeys
        /\ keys' = r.keys
        /\ last' = [NoCall EXCEPT !.op = "generate", !.alg = alg, !.opts = opts,
                       !.ret = r.ret, !.err = r.err, !.before = keys]
        /\ run' = <<>>
        /\ runPre' = <<>>
        /\ handed' = Hand(<<>>, r.ret)
        /\ UNCHANGED <<cli, flights, landed>>

\* store.get(kid); kid = Undefined is the call without argument.
Get(kid) ==
    LET r == JWKStoreGet(keys, kid)
        counted == kid = Undefined /\ r.ret # <<>>
    IN  /\ keys' = r.keys
        /\ last' = [NoCall EXCEPT !.op = "get", !.kid = kid, !.ret = r.ret,
                       !.before = keys]
        /\ run' = IF counted THEN LastN(run \o r.ret, MaxKeys + 1) ELSE <<>>
        /\ runPre' = IF counted THEN LastN(Append(runPre, keys), MaxKeys + 1)
                     ELSE <<>>
        /\ UNCHANGED <<handed, cli, flights, landed>>

\* store.toJSON(), store.toJSON(b)
ToJSON(arg) ==
    /\ keys' = RotatorAfterToJSON(keys)
    /\ last' = [NoCall EXCEPT !.op = "toJSON", !.flag = arg,
                   !.json = JWKStoreToJSON(keys, arg), !.before = keys]
    /\ run' = <<>>
    /\ runPre' = <<>>
    /\ UNCHANGED <<handed, cli, flights, landed>>

\* The kids in the order of their latest successful add/generate.
Reinsert(order, kid) == Append(SelectSeq(order, LAMBDA k : k # kid), kid)

\* The calls of get() a key may still have to wait: one more than its
\* position when add, generate or get has just placed it, one less after
\* each get() that returned another key.
Due(ks, call) ==
    [k \in {ks[i]["kid"] : i \in 1..Len(ks)} |->
        IF call.ret # <<>> /\ call.ret[1]["kid"] = k
        THEN [of |-> FindIndex(ks, k) + 1, left |-> FindIndex(ks, k) + 1]
        ELSE IF call.op = "get" /\ call.kid = Undefined
             THEN [due[k] EXCEPT !.left = @ - 1]
             ELSE due[k]]

TrackService ==
    /\ due' = Due(keys', last')
    /\ UNCHANGED <<inserted, touched>>

TrackInsertions ==
    /\ inserted' = IF last'.op \in {"add", "generate"} /\ last'.err = NoError
                   THEN Reinsert(inserted, last'.ret[1]["kid"])
                   ELSE inserted
    /\ touched' = IF last'.ret # <<>>
                  THEN Reinsert(touched, last'.ret[1]["kid"])
                  ELSE touched
    /\ UNCHANGED due

NoTracking == UNCHANGED <<inserted, touched, due>>

AddStep(inputs) == \E jwk \in inputs, rnd \in RandomKids : Add(jwk, rnd)

GenerateStep(algs, optss) ==
    \E alg \in algs, opts \in optss, rnd \in RandomKids :
        /\ opts.crv # Undefined => alg = "EdDSA"
        /\ Generate(alg, opts, rnd)

GetStep(kids) == \E kid \in kids \cup {Undefined, "non-existing-kid"} : Get(kid)

ToJSONStep == \E arg \in {<<>>, <<TRUE>>, <<FALSE>>} : ToJSON(arg)

(***************************************************************************)
(* Spec: every kind of key and call on a store of few kids; the orders of  *)
(* insertion and of use are not recorded.                                  *)
(***************************************************************************)
AddCall ==
    /\ AddStep(SuppliedKeys({RSAKey, BareKey}, CallerKids \cup {Undefined}))
    /\ NoTracking

GenerateCall ==
    /\ GenerateStep({"RS256", "ES256", "EdDSA", "dunno"},
                    GenerateOpts(CallerKids \cup {Undefined}, {Undefined, "Ed007"}))
    /\ NoTracking

GetCall == GetStep(CallerKids \cup RandomKids) /\ NoTracking

ToJSONCall == ToJSONStep /\ NoTracking

Next == AddCall \/ GenerateCall \/ GetCall \/ ToJSONCall

Spec == Init /\ [][Next]_vars

(***************************************************************************)
(* SpecOrder: keys of one kind (generated RS256 keys, and the same keys    *)
(* supplied again by a caller) under more kids, with the orders of         *)
(* insertion and of use recorded. Callers add under two kids of theirs and *)
(* generate under a third; both leave the kid to the store too.            *)
(***************************************************************************)
SavedKey ==
    NewObject("caller", [FromKeyLike("RS256", Undefined) EXCEPT !["alg"] = "RS256"])

OrderAdd ==
    /\ AddStep(SuppliedKeys({SavedKey}, {"key-one", "key-two", Undefined}))
    /\ TrackInsertions

OrderGenerate ==
    /\ GenerateStep({"RS256"}, GenerateOpts({"key-three", Undefined}, {Undefined}))
    /\ TrackInsertions

OrderGet == GetStep(OrderKids \cup RandomKids) /\ TrackInsertions

OrderToJSON == ToJSONStep /\ TrackInsertions

NextOrder == OrderAdd \/ OrderGenerate \/ OrderGet \/ OrderToJSON

SpecOrder == Init /\ [][NextOrder]_vars

(***************************************************************************)
(* SpecService: the calls of SpecOrder, with the wait of each key for its  *)
(* turn recorded in place of the orders.                                   *)
(***************************************************************************)
ServiceAdd ==
    /\ AddStep(SuppliedKeys({SavedKey}, {"key-one", "key-two", Undefined}))
    /\ TrackService

ServiceGenerate ==
    /\ GenerateStep({"RS256"}, GenerateOpts({"key-three", Undefined}, {Undefined}))
    /\ TrackService

ServiceGet == GetStep(OrderKids \cup RandomKids) /\ TrackService

ServiceToJSON == ToJSONStep /\ TrackService

NextService == ServiceAdd \/ ServiceGenerate \/ ServiceGet \/ ServiceToJSON

SpecService == Init /\ [][NextService]_vars

(***************************************************************************)
(* The command line, src/src/oauth2-mock-server.ts: cli(args) parses the   *)
(* arguments and starts the server, whose issuer.keys is the store.        *)
(***************************************************************************)
\* The options showHelp lists.
HelpOptions ==
    {"-h", "--help", "-a", "-p", "--jwk", "--pem", "--save-jwk", "--save-pem"}

\* The key files of the working directory: a key with kid and alg, another
\* key of the same kid, a key without kid, a key without alg.
Files ==
    [name \in {"rsa.json", "same.json", "nokid.json", "noalg.json"} |->
        CASE name = "rsa.json" -> [RSAKey EXCEPT !["kid"] = "key-one"]
          [] name = "same.json" ->
                [RSAKey EXCEPT !["kid"] = "key-one", !["n"] = "n2", !["d"] = "d2"]
          [] name = "nokid.json" -> RSAKey
          [] OTHER -> [RSAKey EXCEPT !["kid"] = "key-one", !["alg"] = Undefined]]

\* The options of a command line, each with the value it takes.
ArgUnits ==
    {<<"-h">>, <<"--help">>, <<"-a", "localhost">>, <<"-p", "8080">>,
     <<"-p", "65536">>, <<"--jwk">>, <<"--save-jwk">>, <<"--pem", "key.pem">>,
     <<"--save-pem">>, <<"--verbose">>}
      \cup {<<"--jwk", name>> : name \in DOMAIN Files \cup {"missing.json"}}

RECURSIVE ArgLists(_)
ArgLists(n) ==
    IF n = 0 THEN {<<>>}
    ELSE LET shorter == ArgLists(n - 1)
         IN  shorter \cup {u \o a : u \in ArgUnits, a \in shorter}

\* generateRandomKid() at the command line.
CliRandomKids == {"5f3a", "9c1e"}

\* shift(args) of ./lib/helpers: the first element and the rest; it throws
\* on an empty array.
shift(args) ==
    IF args = <<>>
    THEN [val |-> <<>>, rest |-> args, err |-> "Empty array"]
    ELSE [val |-> <<Head(args)>>, rest |-> Tail(args), err |-> NoError]

\* assertKidIsDefined(kid) of ./lib/helpers: it throws for undefined.
assertKidIsDefined(kid) ==
    IF kid = Undefined THEN "kid is undefined" ELSE NoError

\* parseInt(portStr, 10) of the port values in use; <<>> is NaN.
ParseInt(str) ==
    CASE str = "8080" -> <<8080>>
      [] str = "65536" -> <<65536>>
      [] OTHER -> <<>>

parsePort(portStr) ==
    LET port == ParseInt(portStr)
    IN  IF port = <<>> \/ port[1] < 0 \/ port[1] > 65535
        THEN [port |-> <<>>, err |-> "Invalid port number."]
        ELSE [port |-> port, err |-> NoError]

\* parseJWK(filename): the object JSON.parse makes of the file.
parseJWK(filename) ==
    IF filename \in DOMAIN Files
    THEN [jwk |-> <<NewObject("JSON.parse", Files[filename])>>, err |-> NoError]
    ELSE [jwk |-> <<>>, err |-> "ENOENT"]

\* The catch of cli: the message is printed, the exit code set to 1 and the
\* promise rejected; no server is made.
CliCatch(c, msg) ==
    [c EXCEPT !.pc = "exit", !.error = msg, !.exitCode = <<1>>]

\* One turn of the loop of parseCliArgs, and what cli does when the loop
\* returns null or throws.
parseCliArgs(c) ==
    LET a == shift(c.args)
        arg == a.val[1]
        v == shift(a.rest)
        c1 == [c EXCEPT !.args = a.rest, !.arg = arg]
        c2 == [c EXCEPT !.args = v.rest, !.arg = arg]
    IN  CASE arg \in {"-h", "--help"} ->
                [c1 EXCEPT !.pc = "exit", !.exitCode = <<0>>]
          [] arg = "-a" ->
                IF v.err # NoError THEN CliCatch(c1, v.err)
                ELSE [c2 EXCEPT !.opts.host = v.val[1]]
          [] arg = "-p" ->
                IF v.err # NoError THEN CliCatch(c1, v.err)
                ELSE LET p == parsePort(v.val[1])
                     IN  IF p.err # NoError THEN CliCatch(c2, p.err)
                         ELSE [c2 EXCEPT !.opts.port = p.port[1]]
          [] arg = "--jwk" ->
                IF v.err # NoError THEN CliCatch(c1, v.err)
                ELSE LET j == parseJWK(v.val[1])
                     IN  IF j.err # NoError THEN CliCatch(c2, j.err)
                         ELSE [c2 EXCEPT !.opts.keys = Append(@, j.jwk[1]),
                                         !.jwks = Append(@, j.jwk[1])]
          [] arg = "--save-jwk" -> [c1 EXCEPT !.opts.saveJWK = TRUE]
          [] OTHER -> CliCatch(c1, "Unrecognized option")

\* startServer rejects: no exit code is set by cli.
Reject(c, msg) == [c EXCEPT !.pc = "rejected", !.error = msg]

\* opts.keys.map(key => server.issuer.keys.add(key)) under Promise.all: add
\* is called for each key in turn, and the first rejection is the one of
\* Promise.all. rnds[i] is the random kid at hand at the i-th call.
RECURSIVE AddAll(_, _, _, _)
AddAll(ks, jwks, rnds, i) ==
    IF i > Len(jwks) THEN [keys |-> ks, err |-> NoError]
    ELSE LET r == JWKStoreAdd(ks, jwks[i], rnds[i])
             more == AddAll(r.keys, jwks, rnds, i + 1)
         IN  [keys |-> more.keys,
              err |-> IF r.err # NoError THEN r.err ELSE more.err]

\* As NeedsGeneratedKey, a key generated at every start.
NeedsGeneratedKeyAlways(optsKeys) == TRUE

\* opts.keys.length === 0
NeedsGeneratedKey(optsKeys) == Len(optsKeys) = 0

\* The file JSON.stringify(key) makes: the members of the key.
Stringify(key) == [f \in Fields |-> key[f]]

\* saveJWK(keys): the files after it, and the error it throws.
RECURSIVE saveJWK(_, _, _)
saveJWK(files, ks, i) ==
    IF i > Len(ks) THEN [files |-> files, err |-> NoError]
    ELSE LET key == ks[i]
             err == assertKidIsDefined(key["kid"])
             filename == <<key["kid"], ".json">>
         IN  IF err # NoError THEN [files |-> files, err |-> err]
             ELSE saveJWK((filename :> Stringify(key)) @@ files, ks, i + 1)

\* The process begins: cli(process.argv.slice(2)) on an empty store.
InitCli ==
    /\ cli \in {[NoCli EXCEPT !.pc = "parseCliArgs", !.args = args] :
                    args \in ArgLists(MaxOptions)}
    /\ keys = <<>>
    /\ last = NoCall
    /\ run = <<>>
    /\ runPre = <<>>
    /\ inserted = <<>>
    /\ touched = <<>>
    /\ due = <<>>
    /\ handed = <<>>
    /\ flights = <<>>
    /\ landed = <<>>

\* What the calls of the store record is not recorded for the command line.
NoCalls ==
    UNCHANGED <<last, run, runPre, inserted, touched, due, handed, flights,
                landed>>

\* while (args.length > 0) { ... }
CliParseOption ==
    /\ cli.pc = "parseCliArgs"
    /\ cli.args # <<>>
    /\ cli' = parseCliArgs(cli)
    /\ UNCHANGED keys
    /\ NoCalls

\* return opts; cli calls startServer(options), which makes the server.
CliParsed ==
    /\ cli.pc = "parseCliArgs"
    /\ cli.args = <<>>
    /\ cli' = [cli EXCEPT !.pc = "add keys"]
    /\ UNCHANGED keys
    /\ NoCalls

\* await Promise.all(opts.keys.map(...))
CliAddKeys ==
    /\ cli.pc = "add keys"
    /\ \E rnds \in [1..Len(cli.opts.keys) -> CliRandomKids] :
           LET r == AddAll(keys, cli.opts.keys, rnds, 1)
           IN  /\ keys' = r.keys
               /\ cli' = IF r.err # NoError THEN Reject(cli, r.err)
                         ELSE [cli EXCEPT !.pc = "generate"]
    /\ NoCalls

\* if (opts.keys.length === 0) { generate('RS256'); opts.keys.push(jwk) }
CliGenerateKey ==
    /\ cli.pc = "generate"
    /\ IF NeedsGeneratedKey(cli.opts.keys)
       THEN \E rnd \in CliRandomKids :
                LET r == JWKStoreGenerate(keys, "RS256", NoOpts, rnd)
                IN  /\ keys' = r.keys
                    /\ cli' = [cli EXCEPT !.pc = "saveJWK",
                                   !.opts.keys = Append(@, r.ret[1]),
                                   !.generated = @ + 1]
       ELSE /\ keys' = keys
            /\ cli' = [cli EXCEPT !.pc = "saveJWK"]
    /\ NoCalls

\* if (opts.saveJWK) { await saveJWK(opts.keys) }
CliSaveJWK ==
    /\ cli.pc = "saveJWK"
    /\ IF cli.opts.saveJWK
       THEN LET r == saveJWK(cli.files, cli.opts.keys, 1)
            IN  cli' = IF r.err # NoError
                       THEN [Reject(cli, r.err) EXCEPT !.files = r.files]
                       ELSE [cli EXCEPT !.pc = "start", !.files = r.files]
       ELSE cli' = [cli EXCEPT !.pc = "start"]
    /\ UNCHANGED keys
    /\ NoCalls

\* await server.start(opts.port, opts.host): the server listens, or the
\* address is not to be had.
CliStart ==
    /\ cli.pc = "start"
    /\ \E ok \in BOOLEAN :
           cli' = IF ok THEN [cli EXCEPT !.pc = "listening"]
                  ELSE Reject(cli, "EADDRINUSE")
    /\ UNCHANGED keys
    /\ NoCalls

NextCli ==
    \/ CliParseOption
    \/ CliParsed
    \/ CliAddKeys
    \/ CliGenerateKey
    \/ CliSaveJWK
    \/ CliStart

SpecCli == InitCli /\ [][NextCli]_vars

(***************************************************************************)
(* SpecFlight: calls of generate that are suspended at their awaits while  *)
(* other calls of generate, add and get run on the store.                  *)
(***************************************************************************)
\* The private exponent of the key pair generateKeyPair makes for the n-th
\* call: every call gets a pair of its own.
PairOf(n) == <<"d-first", "d-second", "d-third", "d-fourth">>[n]

\* As GenerateResume, a key that comes back to a kid in use dropped and the
\* stored key returned.
GenerateResumeKeepingFirst(ks, n, flight, rnd) ==
    LET pair == [FromKeyLike(flight.alg, flight.opts.crv) EXCEPT !["d"] = PairOf(n)]
        norm == normalizeKey(NewObject("fromKeyLike", pair), flight.alg,
                             flight.opts, rnd)
        pos == findNext(ks, norm.jwk["kid"])
    IN  IF norm.err # NoError
        THEN [keys |-> ks, ret |-> <<>>, err |-> norm.err]
        ELSE IF pos > -1
        THEN [keys |-> ks, ret |-> <<ks[pos + 1]>>, err |-> NoError]
        ELSE [keys |-> RotatorAdd(ks, norm.jwk), ret |-> <<norm.jwk>>,
              err |-> NoError]

\* generate from the resolution of fromKeyLike to its return, which no
\* await divides: normalizeKey, KeyRotator.add, return jwk.
GenerateResume(ks, n, flight, rnd) ==
    LET pair == [FromKeyLike(flight.alg, flight.opts.crv) EXCEPT !["d"] = PairOf(n)]
        norm == normalizeKey(NewObject("fromKeyLike", pair), flight.alg,
                             flight.opts, rnd)
    IN  IF norm.err # NoError
        THEN [keys |-> ks, ret |-> <<>>, err |-> norm.err]
        ELSE [keys |-> RotatorAdd(ks, norm.jwk), ret |-> <<norm.jwk>>,
              err |-> NoError]

\* What the command line and the orders record is not recorded here.
NoFlightTracking == NoTracking /\ UNCHANGED cli

\* store.generate(alg, opts), not awaited: the call runs up to its first
\* await, of generateKeyPair.
FlightIssue ==
    /\ Len(flights) < MaxFlights
    /\ \E alg \in {"RS256", "dunno"},
          opts \in GenerateOpts({"key-one", Undefined}, {Undefined}) :
           flights' = Append(flights, [alg |-> alg, opts |-> opts,
                                        stage |-> "generateKeyPair"])
    /\ UNCHANGED <<keys, last, run, runPre, handed, landed>>
    /\ NoFlightTracking

\* generateKeyPair settles: the call goes on to await fromKeyLike, or its
\* promise is rejected.
FlightKeyPair ==
    /\ \E n \in 1..Len(flights) :
           /\ flights[n].stage = "generateKeyPair"
           /\ flights' =
                  [flights EXCEPT ![n].stage =
                      IF GenerateKeyPairError(flights[n].alg, flights[n].opts.crv)
                             = NoError
                      THEN "fromKeyLike" ELSE "rejected"]
    /\ UNCHANGED <<keys, last, run, runPre, handed, landed>>
    /\ NoFlightTracking

\* fromKeyLike resolves: the call runs to its end.
FlightLand ==
    /\ \E n \in 1..Len(flights), rnd \in RandomKids :
           LET r == GenerateResume(keys, n, flights[n], rnd)
           IN  /\ flights[n].stage = "fromKeyLike"
               /\ Len(r.keys) <= MaxKeys
               /\ keys' = r.keys
               /\ last' = [NoCall EXCEPT !.op = "generate",
                              !.alg = flights[n].alg, !.opts = flights[n].opts,
                              !.ret = r.ret, !.err = r.err, !.before = keys]
               /\ handed' = Hand(<<>>, r.ret)
               /\ flights' = [flights EXCEPT ![n].stage = "resolved"]
               /\ landed' = IF r.ret = <<>> THEN landed
                            ELSE Append(landed, [call |-> n,
                                                 kid |-> r.ret[1]["kid"]])
    /\ run' = <<>>
    /\ runPre' = <<>>
    /\ NoFlightTracking

FlightAdd ==
    /\ AddStep(SuppliedKeys({SavedKey}, {"key-one"}))
    /\ NoTracking

FlightGet == GetStep({"key-one"}) /\ NoTracking

NextFlight ==
    \/ FlightIssue
    \/ FlightKeyPair
    \/ FlightLand
    \/ FlightAdd
    \/ FlightGet

SpecFlight == Init /\ [][NextFlight]_vars

(***************************************************************************)
(* Properties.                                                             *)
(***************************************************************************)
Range(s) == {s[i] : i \in 1..Len(s)}

KidsOf(ks) == {ks[i]["kid"] : i \in 1..Len(ks)}

UniqueKids(ks) ==
    \A i, j \in 1..Len(ks) : i # j => ks[i]["kid"] # ks[j]["kid"]

\* The sequence without the keys of kid k.
Without(ks, k) == SelectSeq(ks, LAMBDA x : x["kid"] # k)

Inserted == last.op \in {"add", "generate"} /\ last.err = NoError

\* Two objects with the same members.
SameMembers(a, b) == \A f \in Fields : a[f] = b[f]

\* C1: in every reachable state no two stored keys share a kid.
C1_UniqueKids == UniqueKids(keys) /\ UniqueKids(last.before)

\* C1 witness: an add or generate under a kid the store already held, beside
\* another key.
C1_Witness ==
    /\ Inserted
    /\ last.ret[1]["kid"] \in KidsOf(last.before)
    /\ Len(keys) >= 2

\* C2: N consecutive get() calls on a store of N >= 1 keys return pairwise
\* distinct keys, each stored key once, and the call after them returns the
\* first again.
C2_RoundRobin ==
    LET N == Len(keys)
    IN  /\ \A i, j \in 1..Len(run) :
              /\ (i < j /\ j - i < N) => run[i] # run[j]
              /\ j - i = N => run[i] = run[j]
        /\ Len(run) >= N => Range(LastN(run, N)) = Range(keys)
        /\ Len(run) > 0 => N >= 1

\* C2 witness: N + 1 consecutive get() calls on a store of N >= 3 keys.
C2_Witness == Len(keys) >= 3 /\ Len(run) = Len(keys) + 1

\* The kid a successful add or generate stores its key under, when the
\* caller chose it.
ChosenKid ==
    IF last.op = "add" THEN last.jwk[1]["kid"]
    ELSE IF last.opts.defined THEN last.opts.kid ELSE Undefined

\* C3: after a successful add or generate of normalized kid k the store
\* holds one key of kid k, the new one, at the tail; the other keys keep
\* their order; the store grows by one exactly when k was not present.
C3_AddReplaces ==
    Inserted =>
        LET new == last.ret[1]
            k == new["kid"]
        IN  /\ IF ChosenKid # Undefined THEN k = ChosenKid ELSE k \in RandomKids
            /\ Cardinality({i \in 1..Len(keys) : keys[i]["kid"] = k}) = 1
            /\ keys[Len(keys)] = new
            /\ last.op = "add" =>
                   SameMembers(new, [last.jwk[1] EXCEPT !["kid"] = k])
            /\ last.op = "generate" =>
                   /\ new["alg"] = last.alg
                   /\ SameMembers(new, [FromKeyLike(last.alg, last.opts.crv)
                                          EXCEPT !["kid"] = k, !["alg"] = last.alg])
            /\ Without(keys, k) = Without(last.before, k)
            /\ Len(keys) = Len(last.before)
                             + (IF k \in KidsOf(last.before) THEN 0 ELSE 1)

\* C3 witness: an add replacing a different key of the same kid that was
\* not at the tail.
C3_Witness ==
    /\ last.op = "add"
    /\ last.err = NoError
    /\ \E i \in 1..(Len(last.before) - 1) :
           /\ last.before[i]["kid"] = last.ret[1]["kid"]
           /\ last.before[i]["kty"] # last.ret[1]["kty"]

\* The key of kid k in a sequence that holds one.
KeyOf(ks, k) == CHOOSE x \in Range(ks) : x["kid"] = k

\* C4: get(kid) of a kid that is present returns the stored key of that kid
\* and moves it, and only it, to the tail; get() does so for the head.
C4_GetMovesToTail ==
    /\ (last.op = "get" /\ last.kid \in KidsOf(last.before)) =>
           LET key == KeyOf(last.before, last.kid)
           IN  /\ last.ret = <<key>>
               /\ keys = Append(Without(last.before, last.kid), key)
    /\ (last.op = "get" /\ last.kid = Undefined /\ last.before # <<>>) =>
           /\ last.ret = <<Head(last.before)>>
           /\ keys = Append(Tail(last.before), Head(last.before))

\* C4 witness: get(kid) of the key in the middle of three.
C4_Witness ==
    /\ last.op = "get"
    /\ Len(last.before) = 3
    /\ last.kid = last.before[2]["kid"]

PublicJSON(ks) == {JWKStoreToJSON(ks, <<FALSE>>), JWKStoreToJSON(ks, <<>>)}

\* C6: no entry of toJSON(false) or toJSON() carries a private member, for
\* every stored key of every key type.
C6_NoPrivateFields ==
    /\ \A json \in PublicJSON(keys) :
           /\ Len(json) = Len(keys)
           /\ \A i \in 1..Len(json) : Has(json[i]) \cap PrivateFields = {}
    /\ (last.op = "toJSON" /\ last.flag # <<TRUE>>) =>
           /\ Len(last.json) = Len(keys)
           /\ \A i \in 1..Len(last.json) :
                  Has(last.json[i]) \cap PrivateFields = {}

\* C6 witness: toJSON(false) on a store of an RSA, an EC and an OKP private
\* key.
C6_Witness ==
    /\ last.op = "toJSON"
    /\ last.flag = <<FALSE>>
    /\ {keys[i]["kty"] : i \in 1..Len(keys)} = {"RSA", "EC", "OKP"}
    /\ \A i \in 1..Len(keys) : "d" \in Has(keys[i])

\* The members the public-safe subset of a key has: kid, kty, use if the
\* key has it, and the public members of the key's type.
PublicSafe(key) ==
    Has(key) \cap ({"kid", "kty", "use"} \cup PublicFields(key["kty"]))

\* C7: every entry of toJSON(false) is exactly the public-safe subset of the
\* stored key: kid, kty, use if present, and the public members of the
\* key's own type (n, e for RSA; crv and the curve point for EC and OKP).
C7_PublicSubset ==
    (last.op = "toJSON" /\ last.flag # <<TRUE>>) =>
        /\ Len(last.json) = Len(last.before)
        /\ \A i \in 1..Len(last.json) :
               /\ Has(last.json[i]) = PublicSafe(last.before[i])
               /\ \A f \in Has(last.json[i]) : last.json[i][f] = last.before[i][f]

\* C8: a generate or add either succeeds, and then the kids are unique and
\* every key has a kid and an alg, or fails, and then the rotation sequence
\* is what it was before the call.
C8_Atomic ==
    last.op \in {"add", "generate"} =>
        \/ /\ last.err = NoError
           /\ last.ret # <<>>
           /\ last.ret[1] \in Range(keys)
           /\ UniqueKids(keys)
           /\ \A i \in 1..Len(keys) : {"kid", "alg"} \subseteq Has(keys[i])
        \/ /\ last.err # NoError
           /\ last.ret = <<>>
           /\ keys = last.before

\* C8 witness: an add that fails, of a key without kid (normalizeKey gives
\* the copy a kid before it throws), on a store of two keys or more.
C8_Witness ==
    /\ last.op = "add"
    /\ last.err # NoError
    /\ last.jwk[1]["kid"] = Undefined
    /\ Len(last.before) >= 2

\* C9: add fails with the missing-algorithm error exactly when the supplied
\* key has no alg, with or without a kid, and succeeds for every key with an
\* alg, whatever its key material.
C9_AddNeedsAlg ==
    last.op = "add" =>
        /\ last.err \in {NoError, "Unspecified alg"}
        /\ last.err = "Unspecified alg" <=> last.jwk[1]["alg"] = Undefined
        /\ last.err = NoError =>
               /\ last.ret # <<>>
               /\ last.ret[1] \in Range(keys)
               /\ last.ret[1]["alg"] = last.jwk[1]["alg"]

\* C9 witness: a key that carries an alg and no key material at all is
\* accepted.
C9_Witness ==
    /\ last.op = "add"
    /\ last.err = NoError
    /\ Has(last.jwk[1]) \subseteq {"kid", "alg"}

\* C9 witness of the failure: a key with a kid and without alg is refused.
C9_WitnessRefused ==
    /\ last.op = "add"
    /\ last.err = "Unspecified alg"
    /\ last.jwk[1]["kid"] # Undefined

\* The kids of a sequence of keys, in its order.
KidSeq(ks) == [i \in 1..Len(ks) |-> ks[i]["kid"]]

\* C10 as stated: N consecutive get() calls on a store of N keys visit the
\* keys in the order in which add/generate (re)inserted them.
C10_InsertionOrder ==
    \A i \in 1..Len(run) : i <= Len(keys) => run[i]["kid"] = inserted[i]

\* C10 as amended: the rotation sequence is the keys in the order of their
\* latest (re)insertion by add/generate or return by get; N consecutive
\* get() calls from any state visit each key once in the order of the
\* rotation sequence of that state, and then the cycle repeats.
C10_RotationOrder ==
    LET N == Len(keys)
    IN  /\ KidSeq(keys) = touched
        /\ Len(run) = Len(runPre)
        /\ \A i \in 1..Len(run) :
               /\ Len(runPre[i]) = N
               /\ \A j \in 0..N :
                      i + j <= Len(run) =>
                          run[i + j] = runPre[i][IF j = N THEN 1 ELSE j + 1]

\* C10 witness: N consecutive get() calls on a store of N >= 3 keys whose
\* rotation order was not the insertion order when the calls began.
C10_Witness ==
    /\ Len(keys) >= 3
    /\ Len(run) >= Len(keys)
    /\ KidSeq(runPre[1]) # inserted

\* C11: toJSON(true), toJSON(false) and toJSON() leave the rotation sequence
\* as it was: the same keys (the same objects) in the same order, so that
\* every get() and get(kid) after the call returns what it would have
\* returned without it; the entries are new objects, none a stored key.
C11_ToJSONReadOnly ==
    last.op = "toJSON" =>
        /\ keys = last.before
        /\ \A kid \in KidsOf(last.before) \cup {Undefined, "non-existing-kid"} :
               JWKStoreGet(keys, kid) = JWKStoreGet(last.before, kid)
        /\ \A i \in 1..Len(last.json) : last.json[i] \notin Range(keys)

\* C11 witness: toJSON(true) on a store of three keys.
C11_Witness ==
    /\ last.op = "toJSON"
    /\ last.flag = <<TRUE>>
    /\ Len(last.before) = 3

\* C12: toJSON(b) on a store of N keys returns N entries, the i-th under the
\* kid of the i-th key of the rotation sequence; with b = true every entry
\* carries every member of its key, the private ones too, with the key's
\* values.
C12_ToJSONEntries ==
    last.op = "toJSON" =>
        /\ Len(last.json) = Len(last.before)
        /\ KidSeq(last.json) = KidSeq(last.before)
        /\ UniqueKids(last.json)
        /\ last.flag = <<TRUE>> =>
               \A i \in 1..Len(last.json) :
                   SameMembers(last.json[i], last.before[i])

\* C12 witness: toJSON(true) on a store of three private keys of different
\* types.
C12_Witness ==
    /\ last.op = "toJSON"
    /\ last.flag = <<TRUE>>
    /\ {last.before[i]["kty"] : i \in 1..Len(last.before)} = {"RSA", "EC", "OKP"}
    /\ \A i \in 1..Len(last.json) : "d" \in Has(last.json[i])

\* C13 as stated: the object get returns for a stored kid is the object the
\* caller stored: the key generate returned, the object given to add.
C13_CallerObject ==
    (last.op = "get" /\ last.ret # <<>>) =>
        LET held == handed[last.ret[1]["kid"]]
        IN  last.ret[1] = (IF held.given = <<>> THEN held.got ELSE held.given[1])

\* C13 as amended: every stored key is the object the latest successful
\* generate or add under its kid returned, and get returns that object, at
\* every call until the kid is stored again; for add it is the copy add
\* made, with the members of the object given and the kid of the store,
\* and not the object given.
C13_ReturnedObject ==
    /\ DOMAIN handed = KidsOf(keys)
    /\ \A i \in 1..Len(keys) : keys[i] = handed[keys[i]["kid"]].got
    /\ (last.op = "get" /\ last.ret # <<>>) =>
           last.ret[1] = handed[last.ret[1]["kid"]].got
    /\ \A k \in DOMAIN handed :
           handed[k].given # <<>> =>
               /\ handed[k].got # handed[k].given[1]
               /\ SameMembers(handed[k].got,
                              [handed[k].given[1] EXCEPT !["kid"] = k])

\* C13 witness: get(k) of a key a caller added under kid k with an object
\* that carried kid and alg, other calls made since.
C13_Witness ==
    /\ last.op = "get"
    /\ last.kid # Undefined
    /\ last.ret # <<>>
    /\ Len(last.before) >= 2
    /\ last.before[1] = last.ret[1]
    /\ handed[last.kid].given # <<>>
    /\ SameMembers(handed[last.kid].given[1], last.ret[1])

\* C14: add leaves the object given to it as it was, whether it succeeds or
\* fails: the same members with the same values, no kid and no alg written
\* into it; the key a successful add returns is another object, with the
\* members of the one given and a kid.
C14_CallerObjectUntouched ==
    last.op = "add" =>
        /\ last.argAfter = last.jwk
        /\ Has(last.argAfter[1]) = Has(last.jwk[1])
        /\ last.err = NoError =>
               /\ last.ret[1] # last.jwk[1]
               /\ last.ret[1][Ref] # last.jwk[1][Ref]
               /\ last.ret[1]["kid"] # Undefined
               /\ \A f \in Has(last.jwk[1]) : last.ret[1][f] = last.jwk[1][f]
               /\ Has(last.ret[1]) = Has(last.jwk[1]) \cup {"kid"}

\* C14 witness: a successful add of a key without kid: the copy has got a
\* kid, the object given has none.
C14_Witness ==
    /\ last.op = "add"
    /\ last.err = NoError
    /\ last.jwk[1]["kid"] = Undefined
    /\ last.ret[1]["kid"] \in RandomKids
    /\ last.argAfter[1]["kid"] = Undefined

\* C14 witness of the failure: an add that fails after normalizeKey has
\* written a kid into the copy.
C14_WitnessFailure ==
    /\ last.op = "add"
    /\ last.err = "Unspecified alg"
    /\ last.jwk[1]["kid"] = Undefined
    /\ last.argAfter[1]["kid"] = Undefined

\* C15: in every reachable state every stored key has a kid and an alg that
\* are not empty.
C15_NonEmptyKidAlg ==
    \A i \in 1..Len(keys) :
        /\ keys[i]["kid"] \notin {Undefined, ""}
        /\ keys[i]["alg"] \notin {Undefined, ""}

\* C16: no call takes a key out: every kid that was ever stored is the kid
\* of a stored key, get of such a kid returns its key, and no call leaves
\* fewer keys, or fewer kids, than it found.
C16_NoDeletion ==
    /\ DOMAIN handed \subseteq KidsOf(keys)
    /\ Range(inserted) \subseteq KidsOf(keys)
    /\ KidsOf(last.before) \subseteq KidsOf(keys)
    /\ Len(keys) >= Len(last.before)
    /\ (last.op = "get" /\ last.kid \in DOMAIN handed) =>
           /\ last.ret # <<>>
           /\ last.ret[1]["kid"] = last.kid

\* C16 witness: get(k) returns the key of the kid stored first, after two
\* other kids were stored and a key was stored again under a kid in use.
C16_Witness ==
    /\ last.op = "get"
    /\ last.kid # Undefined
    /\ last.ret # <<>>
    /\ Len(last.before) = 3
    /\ Len(inserted) = 3
    /\ inserted[1] = last.kid
    /\ KidSeq(last.before) # inserted

\* A call that neither asks for the key of kid k by get(k), nor stores a key
\* under k, nor serves it by get().
NotServing(k) == ~(last.ret # <<>> /\ last.ret[1]["kid"] = k)

\* C20: a key at position i (0-based) that is neither asked for by its kid
\* nor stored again is served by one of the next i + 1 calls of get(),
\* whatever add, generate, get(otherKid) and toJSON calls come between:
\* each stored key is still within the calls of get() it was due in when it
\* was placed, no call moves it back, and each get() that serves another
\* key moves it forward.
C20_BoundedService ==
    /\ \A i \in 1..Len(keys) :
           /\ i <= due[keys[i]["kid"]].left
           /\ due[keys[i]["kid"]].left <= due[keys[i]["kid"]].of
    /\ \A p \in 1..Len(last.before) :
           LET k == last.before[p]["kid"]
               pos == FindIndex(keys, k) + 1
           IN  IF NotServing(k)
               THEN /\ pos >= 1
                    /\ pos <= p
                    /\ (last.op = "get" /\ last.kid = Undefined) => pos <= p - 1
               ELSE (last.op = "get" /\ last.kid = Undefined) => p = 1

\* C20 witness: a key placed third that two get() calls have brought to the
\* head: it is due at the next get(), a key having been added meanwhile.
C20_Witness ==
    /\ Len(keys) = 3
    /\ due[keys[1]["kid"]] = [of |-> 3, left |-> 1]
    /\ last.op = "add"
    /\ last.err = NoError

\* startServer has added the keys and generated one if it had to.
KeysReady == cli.pc \in {"saveJWK", "start", "listening"}

\* C17: when no key was supplied with --jwk the start generates one RS256
\* key and adds it, and no other; when a key was supplied it generates
\* none, and every key supplied is added; the server listens only after
\* that, so that the store of a listening server holds a key.
C17_StartupKeys ==
    /\ cli.generated <= 1
    /\ cli.generated = 1 => cli.jwks = <<>>
    /\ cli.pc \in {"parseCliArgs", "add keys", "exit"} => cli.generated = 0
    /\ (KeysReady /\ cli.jwks = <<>>) =>
           /\ cli.generated = 1
           /\ Len(keys) = 1
           /\ keys[1]["alg"] = "RS256"
           /\ SameMembers(keys[1], [FromKeyLike("RS256", Undefined)
                                       EXCEPT !["alg"] = "RS256",
                                              !["kid"] = keys[1]["kid"]])
           /\ keys[1]["kid"] \in CliRandomKids
    /\ (KeysReady /\ cli.jwks # <<>>) =>
           /\ cli.generated = 0
           /\ cli.opts.keys = cli.jwks
           /\ Len(keys) >= 1
           /\ \A i \in 1..Len(keys) : keys[i][Ref] = "{...jwk}"
           /\ \A i \in 1..Len(cli.jwks) :
                  \E j \in 1..Len(keys) :
                      /\ \A f \in Has(cli.jwks[i]) \ {"kid"} :
                             \/ keys[j][f] = cli.jwks[i][f]
                             \/ \E l \in (i + 1)..Len(cli.jwks) :
                                    cli.jwks[l]["kid"] = cli.jwks[i]["kid"]
                      /\ cli.jwks[i]["kid"] # Undefined =>
                             keys[j]["kid"] = cli.jwks[i]["kid"]
    /\ cli.pc = "listening" => Len(keys) >= 1

\* C17 witness: the server listens after a start without --jwk, one key
\* generated and saved.
C17_Witness ==
    /\ cli.pc = "listening"
    /\ cli.jwks = <<>>
    /\ cli.generated = 1
    /\ cli.opts.saveJWK

\* C17 witness of supplied keys: the server listens with the two keys it
\* was given, none generated.
C17_WitnessSupplied ==
    /\ cli.pc = "listening"
    /\ Len(cli.jwks) = 2
    /\ Len(keys) = 2
    /\ cli.generated = 0

\* The start got as far as saving the keys, every key supplied having been
\* accepted by the store.
PastSaving ==
    \/ cli.pc \in {"start", "listening"}
    \/ cli.pc = "rejected" /\ cli.error \in {"kid is undefined", "EADDRINUSE"}

\* C18: with --save-jwk every key of the store is in the file "{kid}.json"
\* of the kid it has in the store, whatever keys were supplied.
C18_SavedUnderStoreKid ==
    (cli.opts.saveJWK /\ PastSaving) =>
        \A i \in 1..Len(keys) :
            LET filename == <<keys[i]["kid"], ".json">>
            IN  /\ filename \in DOMAIN cli.files
                /\ SameMembers(cli.files[filename], keys[i])

\* C18 for the keys that were supplied with a kid, and the generated key:
\* these are saved under their kid.
C18_SavedWhenKidSupplied ==
    (/\ cli.opts.saveJWK
     /\ PastSaving
     /\ \A i \in 1..Len(cli.jwks) : cli.jwks[i]["kid"] # Undefined) =>
        /\ cli.error # "kid is undefined"
        /\ \A i \in 1..Len(keys) :
               LET filename == <<keys[i]["kid"], ".json">>
               IN  /\ filename \in DOMAIN cli.files
                   /\ SameMembers(cli.files[filename], keys[i])

\* C19: every option of the help is accepted by the parser; the command
\* line fails with "Unrecognized option" only for an argument the help does
\* not list, and then the exit code is 1 and no server is started.
C19_HelpOptionsAccepted ==
    cli.error = "Unrecognized option" =>
        /\ cli.arg \notin HelpOptions
        /\ cli.pc = "exit"
        /\ cli.exitCode = <<1>>
        /\ keys = <<>>

\* C19 for the options the parser knows: an argument fails with
\* "Unrecognized option", exit code 1 and no server exactly when it is none
\* of -h, --help, -a, -p, --jwk, --save-jwk.
C19_ParserOptions ==
    /\ cli.error = "Unrecognized option" =>
           /\ cli.arg \notin {"-h", "--help", "-a", "-p", "--jwk", "--save-jwk"}
           /\ cli.pc = "exit"
           /\ cli.exitCode = <<1>>
           /\ keys = <<>>
    /\ (cli.arg \in {"--pem", "--save-pem", "--verbose"}) =>
           cli.error = "Unrecognized option"

\* The call of generate that stored a key under kid k last.
LastLanded(k) ==
    landed[CHOOSE i \in 1..Len(landed) :
               /\ landed[i].kid = k
               /\ \A j \in (i + 1)..Len(landed) : landed[j].kid # k].call

\* C21: with calls of generate suspended at their awaits while other calls
\* of generate, add and get run, no two stored keys share a kid in any
\* state; every add and every generate that comes back stores its key in
\* one step (the key of its kid out, the new key at the tail) or, failing,
\* leaves the store as it was; and the key stored under a kid is the key of
\* the call that stored under it last: of the calls of generate for one
\* kid, the one that came back last, whichever was made first.
C21_InFlightGenerate ==
    /\ UniqueKids(keys)
    /\ DOMAIN handed = KidsOf(keys)
    /\ \A i \in 1..Len(keys) : keys[i] = handed[keys[i]["kid"]].got
    /\ last.op \in {"add", "generate"} =>
           IF last.err = NoError
           THEN keys = Append(Without(last.before, last.ret[1]["kid"]),
                              last.ret[1])
           ELSE keys = last.before
    /\ \A n \in 1..Len(flights) :
           flights[n].stage = "resolved"
               <=> (\E i \in 1..Len(landed) : landed[i].call = n)
    /\ \A i \in 1..Len(landed) :
           LET k == landed[i].kid
           IN  handed[k].given = <<>> =>
                   /\ Cardinality({j \in 1..Len(keys) : keys[j]["kid"] = k}) = 1
                   /\ KeyOf(keys, k)["d"] = PairOf(LastLanded(k))

\* C21 witness: two calls of generate for one kid in flight at once; the
\* one made second came back first, and the store holds the key of the one
\* made first, which came back last and took the other's key out.
C21_Witness ==
    /\ Len(landed) = 2
    /\ landed[1] = [call |-> 2, kid |-> "key-one"]
    /\ landed[2] = [call |-> 1, kid |-> "key-one"]
    /\ last.op = "generate"
    /\ \E i \in 1..Len(last.before) : last.before[i]["d"] = PairOf(2)
    /\ KeyOf(keys, "key-one")["d"] = PairOf(1)

=============================================================================
